---- MODULE Spec2Model ----
(***************************************************************************)
(* DFMutex (src/src/lib.rs): a handle DFMutex<T> { internal: Arc<Mutex<T>> }, *)
(* the spawn helper, and the scenarios of the test modules (single_lock,   *)
(* lock_pair_straight_order, lock_pair_swapped_order, dining_philisophers). *)
(* A cell is one Arc<Mutex<T>> allocation; a handle is a reference to a    *)
(* cell.  Every thread runs the instruction list of its closure, one       *)
(* instruction per step.                                                   *)
(***************************************************************************)
EXTENDS Integers, Sequences, FiniteSets

\* ------------------------------------------------------------------ bounds
\* Workers spawned by the single/pair scenarios (the code's THREADS_RANGE is 0..8).
MaxWorkers == 3
\* Philosophers and forks of the ring (the code's FORK_RANGE is 1..=5).
MaxRing == 3
\* println! calls that may fail in one run (stdout closed); a failed println! panics.
MaxFaults == 1
\* Initial values of the protected counter.
MaxInit == 1

MaxUnits == IF MaxRing > MaxWorkers THEN MaxRing ELSE MaxWorkers

VARIABLES
    scenario,   \* which test function runs
    n,          \* number of spawned units in this run
    faults,     \* number of println! calls that have failed
    v0,         \* the initial protected value
    cell,       \* the heap: sequence of Arc<Mutex<T>> allocations
    mstatus,    \* main thread: "running" | "done" | "panicked"
    mpc,        \* main thread: index into MainProg
    mh,         \* main thread: the handles it owns (m, or the forks vector)
    status,     \* unit -> "unborn" | "running" | "unwinding" | "done" | "panicked"
    kind,       \* unit -> which closure it runs
    pc,         \* unit -> index into Code(kind)
    hnd,        \* unit -> the handles it owns
    guards,     \* unit -> the MutexGuards it holds, in declaration order
    res,        \* unit -> the LockResult not yet unwrapped: "none" | "Ok" | "Err"
    tmp,        \* unit -> the value it read under the guard
    jres        \* unit -> what join returned: "none" | "Ok" | "ThreadPanicked"

vars == <<scenario, n, faults, v0, cell, mstatus, mpc, mh,
          status, kind, pc, hnd, guards, res, tmp, jres>>

Scenarios == {"single", "counter", "pair_straight", "pair_swapped", "ring"}

Units == 1..n

\* ------------------------------------------------------------------ the heap

\* Arc::new(Mutex::new(data)): strong count 1, unlocked, not poisoned.
NewCell(data, inner) ==
    [locked |-> FALSE, poisoned |-> FALSE, data |-> data, inner |-> inner, rc |-> 1]

\* DFMutex::new: allocate one cell; the handle is its index.
New(cs, data, inner) ==
    [cells |-> Append(cs, NewCell(data, inner)), h |-> Len(cs) + 1]

\* A clone that allocates a second cell holding a copy of the value.
CloneDeep(cs, c) ==
    [cells |-> Append(cs, NewCell(cs[c].data, cs[c].inner)), h |-> Len(cs) + 1]

\* A clone that clears the poison flag of the cell it shares.
CloneUnpoison(cs, c) ==
    [cells |-> [cs EXCEPT ![c].rc = @ + 1, ![c].poisoned = FALSE], h |-> c]

\* A clone that shares the cell without counting the new reference.
CloneNoCount(cs, c) ==
    [cells |-> cs, h |-> c]

\* DFMutex::clone: Arc::clone, the same cell with one more strong reference.
Clone(cs, c) ==
    [cells |-> [cs EXCEPT ![c].rc = @ + 1], h |-> c]

\* Dropping a handle: strong count - 1; at 0 the cell is destroyed and the
\* handles stored in its value (the inner DFMutexes of a pair) are dropped.
RECURSIVE DropHandle(_, _)
RECURSIVE DropHandles(_, _)
DropHandles(cs, hs) ==
    IF hs = <<>> THEN cs ELSE DropHandles(DropHandle(cs, Head(hs)), Tail(hs))

DropHandle(cs, c) ==
    LET cs1 == [cs EXCEPT ![c].rc = @ - 1]
    IN  IF cs1[c].rc = 0 THEN DropHandles(cs1, cs1[c].inner) ELSE cs1

\* A lock that never waits.
CanAcquireAny(cs, c) == TRUE

\* A lock whose waiter is never woken.
CanAcquireNever(cs, c) == FALSE

\* Mutex::lock can take the mutex only when it is unlocked; otherwise it blocks.
CanAcquire(cs, c) == ~cs[c].locked

\* A lock that returns a guard without marking the mutex locked.
AcquireNoop(cs, c) == cs

\* A lock that clears the poison flag as it takes the mutex.
AcquireClears(cs, c) == [cs EXCEPT ![c].locked = TRUE, ![c].poisoned = FALSE]

\* A lock that reports a poisoned mutex without taking it.
AcquireUnlessPoisoned(cs, c) ==
    IF cs[c].poisoned THEN cs ELSE [cs EXCEPT ![c].locked = TRUE]

\* Mutex::lock taking the mutex.
Acquire(cs, c) == [cs EXCEPT ![c].locked = TRUE]

\* A lock that reports every acquisition as poisoned.
LockResultErr(cs, c) == "Err"

\* LockResult of Mutex::lock: Err(PoisonError(guard)) when the poison flag is set.
LockResultOf(cs, c) == IF cs[c].poisoned THEN "Err" ELSE "Ok"

\* A guard drop that leaves the mutex locked.
ReleaseKeep(cs, c, panicking) ==
    [cs EXCEPT ![c].poisoned = @ \/ panicking]

\* A guard drop that never sets the poison flag.
ReleaseNoPoison(cs, c, panicking) ==
    [cs EXCEPT ![c].locked = FALSE]

\* MutexGuard::drop: the poison flag is set when the thread is panicking (and
\* was not when the guard was made), then the mutex is unlocked.
Release(cs, c, panicking) ==
    [cs EXCEPT ![c].locked = FALSE, ![c].poisoned = @ \/ panicking]

\* seq without its first occurrence of x.
RECURSIVE RemoveOne(_, _)
RemoveOne(seq, x) ==
    IF seq = <<>> THEN <<>>
    ELSE IF Head(seq) = x THEN Tail(seq)
    ELSE <<Head(seq)>> \o RemoveOne(Tail(seq), x)

Holds(t, c) == \E i \in 1..Len(guards[t]) : guards[t][i] = c

\* ------------------------------------------------------------------ closures

I(op, pl) == [op |-> op, pl |-> pl]

\* single_lock::constant_time closure (and the crate doc example).
CodeSingle ==
    << I("lock", "dfm"), I("unwrap", "dfm"), I("sleep", "-"), I("print", "dfm"),
       I("drop", "dfm"), I("ret", "-") >>

\* One protected increment: read the value and write value + 1 under the guard.
CodeIncr ==
    << I("lock", "dfm"), I("unwrap", "dfm"), I("read", "dfm"), I("write", "dfm"),
       I("drop", "dfm"), I("ret", "-") >>

\* lock_pair_straight_order closure / lock_pair_swapped_order closure_a.
CodePairAB ==
    << I("lock", "dfm"), I("unwrap", "dfm"),
       I("lock", "m1"), I("unwrap", "m1"),
       I("lock", "m2"), I("unwrap", "m2"),
       I("sleep", "-"), I("print", "m1"),
       I("drop", "m2"), I("drop", "m1"), I("drop", "dfm"), I("ret", "-") >>

\* closure_b releasing the outer guard before it takes the inner locks.
CodePairBAEarlyDrop ==
    << I("lock", "dfm"), I("unwrap", "dfm"), I("drop", "dfm"),
       I("lock", "m2"), I("unwrap", "m2"),
       I("lock", "m1"), I("unwrap", "m1"),
       I("sleep", "-"), I("print", "m2"),
       I("drop", "m1"), I("drop", "m2"), I("ret", "-") >>

\* lock_pair_swapped_order closure_b.
CodePairBA ==
    << I("lock", "dfm"), I("unwrap", "dfm"),
       I("lock", "m2"), I("unwrap", "m2"),
       I("lock", "m1"), I("unwrap", "m1"),
       I("sleep", "-"), I("print", "m2"),
       I("drop", "m1"), I("drop", "m2"), I("drop", "dfm"), I("ret", "-") >>

\* eat() that never drops right_fork.
CodePhilKeepsRight ==
    << I("sleep", "-"),
       I("lock", "left"), I("unwrap", "left"), I("print", "left"),
       I("lock", "right"), I("unwrap", "right"), I("print", "right"),
       I("sleep", "-"),
       I("drop", "left"), I("sleep", "-"), I("ret", "-") >>

\* dining_philisophers: phil.think(); phil.eat().
CodePhil ==
    << I("sleep", "-"),
       I("lock", "left"), I("unwrap", "left"), I("print", "left"),
       I("lock", "right"), I("unwrap", "right"), I("print", "right"),
       I("sleep", "-"),
       I("drop", "left"), I("drop", "right"), I("ret", "-") >>

Code(k) ==
    CASE k = "single" -> CodeSingle
      [] k = "incr"   -> CodeIncr
      [] k = "pairAB" -> CodePairAB
      [] k = "pairBA" -> CodePairBA
      [] k = "phil"   -> CodePhil
      [] OTHER        -> <<>>

Instr(t) == Code(kind[t])[pc[t]]

\* The cell a place of the closure refers to: the closure's own handle, a
\* philosopher's left/right handle, or an inner handle reached through the
\* outer guard (guard.deref_mut()).
Resolve(t, pl) ==
    CASE pl = "dfm"   -> hnd[t][1]
      [] pl = "left"  -> hnd[t][1]
      [] pl = "right" -> hnd[t][2]
      [] pl = "m1"    -> cell[hnd[t][1]].inner[1]
      [] pl = "m2"    -> cell[hnd[t][1]].inner[2]

Target(t) == Resolve(t, Instr(t).pl)

At(t, op) == status[t] = "running" /\ Instr(t).op = op

\* ------------------------------------------------------------------ main thread

M(op, a, k) == [op |-> op, a |-> a, k |-> k]

\* for handle in handles { handle.join().unwrap() }, handles in push order.
JoinAll(order) ==
    [i \in 1..(2 * Len(order)) |->
        IF i % 2 = 1 THEN M("join", order[(i + 1) \div 2], "-")
                     ELSE M("junwrap", order[i \div 2], "-")]

SpawnAll(s, k) ==
    [i \in 1..k |->
        M("spawn", i,
          CASE s = "single" -> "single"
            [] s = "counter" -> "incr"
            [] s = "pair_straight" -> "pairAB"
            [] s = "pair_swapped" -> IF i % 2 = 1 THEN "pairAB" ELSE "pairBA"
            [] OTHER -> "single")]

MainProg(s, k) ==
    IF s \in {"single", "counter"} THEN
        << M("new", 0, "-") >> \o SpawnAll(s, k)
           \o JoinAll([i \in 1..k |-> i]) \o << M("end", 0, "-") >>
    ELSE IF s \in {"pair_straight", "pair_swapped"} THEN
        << M("new", 0, "-"), M("new", 0, "-"), M("wrap", 0, "-") >> \o SpawnAll(s, k)
           \o JoinAll([i \in 1..k |-> i]) \o << M("end", 0, "-") >>
    ELSE
        [i \in 1..k |-> M("new", 0, "-")]
           \o [i \in 1..k |-> M("mkphil", i, "-")]
           \o [i \in 1..k |-> M("tspawn", k + 1 - i, "phil")]
           \o JoinAll([i \in 1..k |-> k + 1 - i]) \o << M("end", 0, "-") >>

MInstr == MainProg(scenario, n)[mpc]

MAt(op) == mstatus = "running" /\ MInstr.op = op

UnitVars == <<status, kind, pc, hnd, guards, res, tmp>>
MainOnly == <<scenario, n, v0>>

Init ==
    /\ scenario \in Scenarios
    /\ n \in 1..(IF scenario = "ring" THEN MaxRing ELSE MaxWorkers)
    /\ faults = 0
    /\ v0 \in (IF scenario = "counter" THEN 0..MaxInit ELSE {0})
    /\ cell = <<>>
    /\ mstatus = "running"
    /\ mpc = 1
    /\ mh = <<>>
    /\ status = [t \in 1..n |-> "unborn"]
    /\ kind = [t \in 1..n |-> "-"]
    /\ pc = [t \in 1..n |-> 1]
    /\ hnd = [t \in 1..n |-> <<>>]
    /\ guards = [t \in 1..n |-> <<>>]
    /\ res = [t \in 1..n |-> "none"]
    /\ tmp = [t \in 1..n |-> 0]
    /\ jres = [t \in 1..n |-> "none"]

\* DFMutex::new(String::from(..)) / forks.push(DFMutex::new(..)).
MainNew ==
    /\ MAt("new")
    /\ LET r == New(cell, v0, <<>>)
       IN  /\ cell' = r.cells
           /\ mh' = Append(mh, r.h)
    /\ mpc' = mpc + 1
    /\ UNCHANGED <<MainOnly, faults, mstatus, UnitVars, jres>>

\* let m = DFMutex::new((m1, m2)): the two handles move into the new cell.
MainWrap ==
    /\ MAt("wrap")
    /\ LET r == New(cell, 0, <<mh[1], mh[2]>>)
       IN  /\ cell' = r.cells
           /\ mh' = <<r.h>>
    /\ mpc' = mpc + 1
    /\ UNCHANGED <<MainOnly, faults, mstatus, UnitVars, jres>>

\* spawn(&m, closure): clone the handle, start a thread running f(codfm).
Spawn ==
    /\ MAt("spawn")
    /\ LET t == MInstr.a
           r == Clone(cell, mh[1])
       IN  /\ cell' = r.cells
           /\ hnd' = [hnd EXCEPT ![t] = <<r.h>>]
           /\ status' = [status EXCEPT ![t] = "running"]
           /\ kind' = [kind EXCEPT ![t] = MInstr.k]
    /\ mpc' = mpc + 1
    /\ UNCHANGED <<MainOnly, faults, mstatus, mh, pc, guards, res, tmp, jres>>

\* Philosopher::new(i, forks[i-1].clone(), forks[i % 5].clone()).
MakePhil ==
    /\ MAt("mkphil")
    /\ LET t == MInstr.a
           r1 == Clone(cell, mh[t])
           r2 == Clone(r1.cells, mh[(t % n) + 1])
       IN  /\ cell' = r2.cells
           /\ hnd' = [hnd EXCEPT ![t] = <<r1.h, r2.h>>]
    /\ mpc' = mpc + 1
    /\ UNCHANGED <<MainOnly, faults, mstatus, mh, status, kind, pc, guards, res, tmp, jres>>

\* let mut phil = philosophers.pop().unwrap(); thread::spawn(move || ..).
ThreadSpawn ==
    /\ MAt("tspawn")
    /\ LET t == MInstr.a
       IN  /\ status' = [status EXCEPT ![t] = "running"]
           /\ kind' = [kind EXCEPT ![t] = MInstr.k]
    /\ mpc' = mpc + 1
    /\ UNCHANGED <<MainOnly, faults, cell, mstatus, mh, pc, hnd, guards, res, tmp, jres>>

\* JoinHandle::join returns once the thread has finished.
\* A join that returns without waiting for the thread.
FinishedOrNot(t) == TRUE

Finished(t) == status[t] \in {"done", "panicked"}

\* The Result of JoinHandle::join: Err when the thread panicked.
JoinResult(t) == IF status[t] = "panicked" THEN "ThreadPanicked" ELSE "Ok"

Join ==
    /\ MAt("join")
    /\ Finished(MInstr.a)
    /\ jres' = [jres EXCEPT ![MInstr.a] = JoinResult(MInstr.a)]
    /\ mpc' = mpc + 1
    /\ UNCHANGED <<MainOnly, faults, cell, mstatus, mh, UnitVars>>

\* handle.join().unwrap() on Ok.
JoinUnwrapOk ==
    /\ MAt("junwrap")
    /\ jres[MInstr.a] = "Ok"
    /\ mpc' = mpc + 1
    /\ UNCHANGED <<MainOnly, faults, cell, mstatus, mh, UnitVars, jres>>

\* handle.join().unwrap() on Err: the main thread panics and drops what it owns.
JoinUnwrapErr ==
    /\ MAt("junwrap")
    /\ jres[MInstr.a] = "ThreadPanicked"
    /\ mstatus' = "panicked"
    /\ cell' = DropHandles(cell, mh)
    /\ mh' = <<>>
    /\ UNCHANGED <<MainOnly, faults, mpc, UnitVars, jres>>

\* End of the test body: the handles main owns go out of scope.
MainEnd ==
    /\ MAt("end")
    /\ mstatus' = "done"
    /\ cell' = DropHandles(cell, mh)
    /\ mh' = <<>>
    /\ UNCHANGED <<MainOnly, faults, mpc, UnitVars, jres>>

\* ------------------------------------------------------------------ units

\* thread::sleep (think, or the work under the guards).
Sleep(t) ==
    /\ At(t, "sleep")
    /\ pc' = [pc EXCEPT ![t] = @ + 1]
    /\ UNCHANGED <<MainOnly, faults, cell, mstatus, mpc, mh, status, kind, hnd, guards, res, tmp, jres>>

\* DFMutex::lock: self.internal.lock().
Lock(t) ==
    /\ At(t, "lock")
    /\ CanAcquire(cell, Target(t))
    /\ cell' = Acquire(cell, Target(t))
    /\ guards' = [guards EXCEPT ![t] = Append(@, Target(t))]
    /\ res' = [res EXCEPT ![t] = LockResultOf(cell, Target(t))]
    /\ pc' = [pc EXCEPT ![t] = @ + 1]
    /\ UNCHANGED <<MainOnly, faults, mstatus, mpc, mh, status, kind, hnd, tmp, jres>>

\* .unwrap() on Ok(guard).
UnwrapOk(t) ==
    /\ At(t, "unwrap")
    /\ res[t] = "Ok"
    /\ res' = [res EXCEPT ![t] = "none"]
    /\ pc' = [pc EXCEPT ![t] = @ + 1]
    /\ UNCHANGED <<MainOnly, faults, cell, mstatus, mpc, mh, status, kind, hnd, guards, tmp, jres>>

\* .unwrap() on Err(PoisonError): panic; the guard inside the error is dropped
\* by the unwinding.
UnwrapErr(t) ==
    /\ At(t, "unwrap")
    /\ res[t] = "Err"
    /\ res' = [res EXCEPT ![t] = "none"]
    /\ status' = [status EXCEPT ![t] = "unwinding"]
    /\ UNCHANGED <<MainOnly, faults, cell, mstatus, mpc, mh, kind, pc, hnd, guards, tmp, jres>>

\* println!("{}", data) succeeding.
Println(t) ==
    /\ At(t, "print")
    /\ tmp' = [tmp EXCEPT ![t] = cell[Target(t)].data]
    /\ pc' = [pc EXCEPT ![t] = @ + 1]
    /\ UNCHANGED <<MainOnly, faults, cell, mstatus, mpc, mh, status, kind, hnd, guards, res, jres>>

\* println! panics when writing to stdout fails.
PrintlnPanic(t) ==
    /\ At(t, "print")
    /\ faults < MaxFaults
    /\ faults' = faults + 1
    /\ status' = [status EXCEPT ![t] = "unwinding"]
    /\ UNCHANGED <<MainOnly, cell, mstatus, mpc, mh, kind, pc, hnd, guards, res, tmp, jres>>

\* Read the protected value through the guard.
Read(t) ==
    /\ At(t, "read")
    /\ tmp' = [tmp EXCEPT ![t] = cell[Target(t)].data]
    /\ pc' = [pc EXCEPT ![t] = @ + 1]
    /\ UNCHANGED <<MainOnly, faults, cell, mstatus, mpc, mh, status, kind, hnd, guards, res, jres>>

\* Write the value read + 1 through the guard.
Write(t) ==
    /\ At(t, "write")
    /\ cell' = [cell EXCEPT ![Target(t)].data = tmp[t] + 1]
    /\ pc' = [pc EXCEPT ![t] = @ + 1]
    /\ UNCHANGED <<MainOnly, faults, mstatus, mpc, mh, status, kind, hnd, guards, res, tmp, jres>>

\* A guard going out of scope (or drop(guard)) on the normal path.
DropGuard(t) ==
    /\ At(t, "drop")
    /\ cell' = Release(cell, Target(t), FALSE)
    /\ guards' = [guards EXCEPT ![t] = RemoveOne(@, Target(t))]
    /\ pc' = [pc EXCEPT ![t] = @ + 1]
    /\ UNCHANGED <<MainOnly, faults, mstatus, mpc, mh, status, kind, hnd, res, tmp, jres>>

\* The closure returns: its handles are dropped and the thread finishes.
Return(t) ==
    /\ At(t, "ret")
    /\ cell' = DropHandles(cell, hnd[t])
    /\ hnd' = [hnd EXCEPT ![t] = <<>>]
    /\ status' = [status EXCEPT ![t] = "done"]
    /\ UNCHANGED <<MainOnly, faults, mstatus, mpc, mh, kind, pc, guards, res, tmp, jres>>

\* Unwinding drops the guards, last declared first, each while panicking.
UnwindGuard(t) ==
    /\ status[t] = "unwinding"
    /\ guards[t] # <<>>
    /\ LET c == guards[t][Len(guards[t])]
       IN  /\ cell' = Release(cell, c, TRUE)
           /\ guards' = [guards EXCEPT ![t] = SubSeq(@, 1, Len(@) - 1)]
    /\ UNCHANGED <<MainOnly, faults, mstatus, mpc, mh, status, kind, pc, hnd, res, tmp, jres>>

\* Unwinding ends: the handles are dropped and the thread has panicked.
UnwindEnd(t) ==
    /\ status[t] = "unwinding"
    /\ guards[t] = <<>>
    /\ cell' = DropHandles(cell, hnd[t])
    /\ hnd' = [hnd EXCEPT ![t] = <<>>]
    /\ status' = [status EXCEPT ![t] = "panicked"]
    /\ UNCHANGED <<MainOnly, faults, mstatus, mpc, mh, kind, pc, guards, res, tmp, jres>>

UnitStep(t) ==
    \/ Sleep(t) \/ Lock(t) \/ UnwrapOk(t) \/ UnwrapErr(t)
    \/ Println(t) \/ PrintlnPanic(t) \/ Read(t) \/ Write(t)
    \/ DropGuard(t) \/ Return(t) \/ UnwindGuard(t) \/ UnwindEnd(t)

MainStep ==
    \/ MainNew \/ MainWrap \/ Spawn \/ MakePhil \/ ThreadSpawn
    \/ Join \/ JoinUnwrapOk \/ JoinUnwrapErr \/ MainEnd

Next ==
    \/ MainNew
    \/ MainWrap
    \/ Spawn
    \/ MakePhil
    \/ ThreadSpawn
    \/ Join
    \/ JoinUnwrapOk
    \/ JoinUnwrapErr
    \/ MainEnd
    \/ \E t \in Units : Sleep(t)
    \/ \E t \in Units : Lock(t)
    \/ \E t \in Units : UnwrapOk(t)
    \/ \E t \in Units : UnwrapErr(t)
    \/ \E t \in Units : Println(t)
    \/ \E t \in Units : PrintlnPanic(t)
    \/ \E t \in Units : Read(t)
    \/ \E t \in Units : Write(t)
    \/ \E t \in Units : DropGuard(t)
    \/ \E t \in Units : Return(t)
    \/ \E t \in Units : UnwindGuard(t)
    \/ \E t \in Units : UnwindEnd(t)

Spec == Init /\ [][Next]_vars

\* The scheduler runs every thread that can run: weak fairness per thread.
FairSpec ==
    /\ Init
    /\ [][Next]_vars
    /\ WF_vars(MainStep)
    /\ \A t \in 1..MaxUnits : WF_vars(t \in Units /\ UnitStep(t))

\* ------------------------------------------------------------------ properties

Cells == 1..Len(cell)

\* The guards on cell c that exist: <<unit, position in its guard list>>.
GuardsOn(c) == {g \in Units \X (1..3) : g[2] <= Len(guards[g[1]]) /\ guards[g[1]][g[2]] = c}

\* Unit t is in lock() on a mutex that is locked: it is blocked.
Blocked(t) == At(t, "lock") /\ ~CanAcquire(cell, Target(t))

\* Unit t is about to read or write the protected value of cell c.
Accessing(t, c) ==
    /\ status[t] = "running"
    /\ Instr(t).op \in {"print", "read", "write"}
    /\ Target(t) = c

AllJoinedOk ==
    /\ mstatus = "done"
    /\ \A t \in Units : status[t] = "done" /\ jres[t] = "Ok"

\* A state in which some thread is blocked in lock() and no thread can step.
Deadlocked == (\E t \in Units : Blocked(t)) /\ ~ENABLED Next

\* C1: mutual exclusion.  In every reachable state at most one guard exists on
\* each cell, and a unit about to read or write a cell's protected value holds
\* the guard on that cell.
MutualExclusion ==
    \A c \in Cells :
        /\ Cardinality(GuardsOn(c)) <= 1
        /\ \A t \in Units : Accessing(t, c) => Holds(t, c)

\* C1 witness: two units on one cell, one holds the guard and is about to use
\* the value while the other is blocked in lock() on the same cell.
MutualExclusionWitness ==
    /\ n >= 2
    /\ \E t, u \in Units :
          /\ t # u
          /\ Blocked(u)
          /\ Accessing(t, Target(u))
          /\ Holds(t, Target(u))

\* C2: DFMutex is deadlock-free.  On the ring probe (two or more philosophers,
\* left-then-right acquisition) no reachable state has a thread blocked in
\* lock() while no thread can take a step.
DeadlockFree == (scenario = "ring" /\ n >= 2) => ~Deadlocked

\* C3: single-resource contention is live.  Under weak fairness, in every run
\* of the single-cell scenario in which no println! fails, every worker
\* eventually completes and every join returns Ok.
SingleLive ==
    (scenario = "single") => <>(AllJoinedOk \/ faults > 0)

\* C3 witness: the single-cell scenario with several workers, all joined Ok.
SingleLiveWitness ==
    /\ scenario = "single"
    /\ faults = 0
    /\ n >= 2
    /\ AllJoinedOk

\* C4: paired-resource fixed-order scenario.  No reachable state is a deadlock,
\* and under weak fairness, in every run in which no println! fails, every
\* worker eventually completes and every join returns Ok.
PairStraightLive ==
    /\ [](scenario = "pair_straight" => ~Deadlocked)
    /\ (scenario = "pair_straight" => <>(AllJoinedOk \/ faults > 0))

\* C4 witness: the fixed-order scenario with several workers, all joined Ok.
PairStraightWitness ==
    /\ scenario = "pair_straight"
    /\ faults = 0
    /\ n >= 2
    /\ AllJoinedOk

\* C5: paired-resource alternating-order scenario.  No reachable state is a
\* deadlock, and under weak fairness, in every run in which no println! fails,
\* every worker (closure_a and closure_b alike) eventually completes.
PairSwappedLive ==
    /\ [](scenario = "pair_swapped" => ~Deadlocked)
    /\ (scenario = "pair_swapped"
            => <>((\A t \in Units : status[t] = "done") \/ faults > 0))

\* C5 witness: both orders ran: an (A, B) worker and a (B, A) worker are done.
PairSwappedWitness ==
    /\ scenario = "pair_swapped"
    /\ faults = 0
    /\ \A t \in Units : status[t] = "done"
    /\ \E t, u \in Units : kind[t] = "pairAB" /\ kind[u] = "pairBA"

\* C6: no lost updates.  Once the n workers of the counter scenario have all
\* completed their one read-then-write increment, the value is v0 + n.
NoLostUpdates ==
    (scenario = "counter" /\ \A t \in Units : status[t] = "done")
        => cell[1].data = v0 + n

\* C6 witness: several workers have all completed and the value is v0 + n.
NoLostUpdatesWitness ==
    /\ scenario = "counter"
    /\ n >= 2
    /\ \A t \in Units : status[t] = "done"
    /\ cell[1].data = v0 + n

\* The cells the scenario creates with DFMutex::new.
CellsMade == IF scenario \in {"single", "counter"} THEN 1
             ELSE IF scenario = "ring" THEN n ELSE 3

\* The cell(s) the handles given to unit t must refer to.
HandlesOf(t) ==
    IF scenario \in {"single", "counter"} THEN <<1>>
    ELSE IF scenario = "ring" THEN <<t, (t % n) + 1>>
    ELSE <<3>>

\* The increments of the counter scenario that have been written.
Written == {u \in Units : kind[u] = "incr" /\ pc[u] > 4}

\* C7: sharing correctness.  clone and spawn create no cell (the only cells
\* are those made by new), the handle a unit receives refers to the caller's
\* cell, and a unit that has acquired the guard reads the value last written
\* under the guard through any other handle: v0 plus the increments written.
SharingCorrect ==
    /\ Len(cell) <= CellsMade
    /\ \A t \in Units : hnd[t] # <<>> => hnd[t] = HandlesOf(t)
    /\ \A t \in Units :
          At(t, "write") => tmp[t] = v0 + Cardinality(Written)

\* C7 witness: a spawned unit has read, through its own handle, a value that
\* another unit wrote through a different handle of the cell.
SharingWitness ==
    \E t \in Units :
        /\ At(t, "write")
        /\ Written # {}
        /\ tmp[t] = v0 + Cardinality(Written)
        /\ Len(cell) = 1

\* Unit t panicked because its println! failed (not at an unwrap).
PanickedAtPrintln(t) ==
    status[t] = "panicked" /\ Code(kind[t])[pc[t]].op = "print"

\* The guard unit t made last (the one inside a LockResult not yet unwrapped).
LastGuard(t) == guards[t][Len(guards[t])]

\* Unit t drops a guard in this step while it unwinds from a panic.
UnwindDrops(t) ==
    /\ status[t] = "unwinding"
    /\ guards[t] # <<>>
    /\ guards'[t] # guards[t]

\* Unit t returns from lock() in this step.
LockReturns(t) == Len(guards'[t]) > Len(guards[t])

\* C8: poison propagation.  A guard dropped by a panicking unit leaves its cell
\* unlocked and poisoned; a unit that has panicked holds no guard and no cell
\* stays locked without a guard on it (so the next acquire is not blocked for
\* ever); and the result of an acquire is LockPoisoned (Err) exactly when the
\* cell is poisoned, never an ordinary guard.
PoisonPropagation ==
    /\ [](\A c \in Cells : cell[c].locked => GuardsOn(c) # {})
    /\ [][\A t \in Units :
            UnwindDrops(t) => /\ ~cell'[LastGuard(t)].locked
                              /\ cell'[LastGuard(t)].poisoned]_vars
    /\ [](\A t \in Units : status[t] = "panicked" => guards[t] = <<>>)
    /\ [](\A t \in Units :
            res[t] # "none" => (res[t] = "Err" <=> cell[LastGuard(t)].poisoned))

\* C8 witness: a unit panicked at println! under the guard, and the next
\* acquire on that cell, by another unit, has returned LockPoisoned.
PoisonWitness ==
    \E t, u \in Units :
        /\ t # u
        /\ PanickedAtPrintln(t)
        /\ res[u] = "Err"
        /\ ~Blocked(u)

\* C9: poisoning is sticky.  No step clears the poison flag of a cell, and
\* every acquire that returns on a poisoned cell returns LockPoisoned.
PoisonSticky ==
    /\ [][\A c \in Cells : cell[c].poisoned => cell'[c].poisoned]_vars
    /\ [][\A t \in Units :
            (LockReturns(t) /\ cell[guards'[t][Len(guards'[t])]].poisoned)
                => res'[t] = "Err"]_vars

\* C9 witness: after the panic that poisoned the cell, a second unit failed
\* with LockPoisoned and panicked, and a third has got LockPoisoned too.
PoisonStickyWitness ==
    \E t, u, w \in Units :
        /\ PanickedAtPrintln(t)
        /\ status[u] = "panicked" /\ ~PanickedAtPrintln(u)
        /\ w \notin {t, u} /\ res[w] = "Err"

\* C10: join ordering and outcome.  join has returned for a unit only if the
\* unit has finished; it returned Ok when the unit completed normally and
\* ThreadPanicked when it panicked; and the main thread is past a join only
\* when the joined unit is neither running nor blocked in lock().
JoinOutcome ==
    /\ \A t \in Units :
          jres[t] # "none" =>
              /\ status[t] \in {"done", "panicked"}
              /\ jres[t] = "Ok" <=> status[t] = "done"
              /\ jres[t] = "ThreadPanicked" <=> status[t] = "panicked"
    /\ (mstatus = "running" /\ MInstr.op = "junwrap") => Finished(MInstr.a)

\* C10 witness: one join returned Ok and a later one returned ThreadPanicked.
JoinOutcomeWitness ==
    \E t, u \in Units :
        /\ jres[t] = "Ok"
        /\ jres[u] = "ThreadPanicked"

\* Units that have terminated, or are terminating, abnormally.
Panicking == {u \in Units : status[u] \in {"unwinding", "panicked"}}

\* Unit u is unwinding or has panicked from its own println! failure.
OwnFailure(u) == Code(kind[u])[pc[u]].op = "print"

\* Unit u is unwinding or has panicked from unwrap() on a poisoned lock result.
\* (The cell is named through the handles the unit was given, which it has
\* dropped by the time it has panicked.)
PoisonFailure(u) ==
    LET in == Code(kind[u])[pc[u]]
        hs == HandlesOf(u)
        c  == CASE in.pl = "right" -> hs[2]
                [] in.pl = "m1"    -> cell[hs[1]].inner[1]
                [] in.pl = "m2"    -> cell[hs[1]].inner[2]
                [] OTHER           -> hs[1]
    IN  in.op = "unwrap" /\ cell[c].poisoned

\* C11 (as claimed): a unit's abnormal termination does not affect other
\* units, so no more units terminate abnormally than println! calls failed.
PanicIsolated == Cardinality(Panicking) <= faults

\* C11 (amended): join reports ThreadPanicked only for the unit that itself
\* panicked, and a unit panics only from its own println! failure or from
\* unwrap() on the LockPoisoned result of a cell that a panicking holder
\* poisoned; no panic happens in a run without a println! failure.
PanicIsolatedByPoison ==
    /\ \A u \in Units : jres[u] = "ThreadPanicked" => status[u] = "panicked"
    /\ \A u \in Panicking : OwnFailure(u) \/ (PoisonFailure(u) /\ faults > 0)
    /\ Cardinality({u \in Panicking : OwnFailure(u)}) <= faults

\* C11 witness: one unit panicked at println! under the guard, a second unit
\* that did not fail itself panicked on the poisoned cell, and a third unit,
\* which had the guard before the panic, completed normally.
PanicIsolatedWitness ==
    \E t, u, w \in Units :
        /\ status[t] = "panicked" /\ OwnFailure(t)
        /\ status[u] = "panicked" /\ PoisonFailure(u)
        /\ status[w] = "done"

\* Occurrences of c in a sequence of handles.
RECURSIVE Count(_, _)
Count(hs, c) ==
    IF hs = <<>> THEN 0
    ELSE (IF Head(hs) = c THEN 1 ELSE 0) + Count(Tail(hs), c)

\* The main thread executes spawn(..) or Philosopher::new(.., clone, clone).
ClonesNow ==
    /\ mstatus = "running"
    /\ MInstr.op \in {"spawn", "mkphil"}
    /\ mpc' = mpc + 1

\* Everything of cell c but its reference count.
Exclusion(cs, c) == <<cs[c].locked, cs[c].poisoned, cs[c].data, cs[c].inner>>

\* C12: spawn and clone never block and leave the exclusion state unchanged.
\* Whenever the main thread is at a spawn or a clone the step is enabled,
\* locked or poisoned cell or not; the step creates no cell, changes no cell's
\* locked flag, poison flag or value and no guard, and adds to each cell's
\* reference count exactly the handles the new unit received.
CloneFrame ==
    /\ [](MAt("spawn") => ENABLED Spawn)
    /\ [](MAt("mkphil") => ENABLED MakePhil)
    /\ [][ClonesNow =>
            /\ Len(cell') = Len(cell)
            /\ guards' = guards
            /\ \A c \in Cells :
                  /\ Exclusion(cell', c) = Exclusion(cell, c)
                  /\ cell'[c].rc = cell[c].rc + Count(hnd'[MInstr.a], c)]_vars

\* C12 witness: a spawn has just cloned a handle of a cell that is poisoned
\* and locked by another unit at that moment.
CloneFrameWitness ==
    /\ scenario = "single"
    /\ \E t, u \in Units :
          /\ t # u
          /\ status[u] = "running" /\ pc[u] = 1 /\ hnd[u] = <<1>>
          /\ Holds(t, 1)
          /\ cell[1].locked
          /\ cell[1].poisoned

\* Handles to cell c that exist: the main thread's, the units', and those
\* stored in the value of a cell that has not been destroyed.
RECURSIVE Sum(_, _)
Sum(f, S) ==
    IF S = {} THEN 0
    ELSE LET x == CHOOSE y \in S : TRUE IN f[x] + Sum(f, S \ {x})

LiveHandles(c) ==
    Count(mh, c)
    + Sum([t \in Units |-> Count(hnd[t], c)], Units)
    + Sum([d \in Cells |-> IF cell[d].rc > 0 THEN Count(cell[d].inner, c) ELSE 0], Cells)

\* C13: reference-counted lifetime.  Every cell's reference count equals the
\* number of live handles to it (1 right after new); a destroyed cell (count
\* 0) has no handle and no guard on it, and a guard exists only on a cell
\* that is alive; a unit that has been joined owns no handle.
RefCounted ==
    /\ \A c \in Cells :
          /\ cell[c].rc = LiveHandles(c)
          /\ cell[c].rc >= 0
          /\ GuardsOn(c) # {} => cell[c].rc > 0
    /\ \A t \in Units : jres[t] # "none" => hnd[t] = <<>>

\* C13 witness: all workers are finished and joined, and the only references
\* left are the caller's: the outer cell and, through its value, the inner ones.
RefCountedWitness ==
    /\ scenario = "pair_straight"
    /\ n >= 2
    /\ MAt("end")
    /\ \A t \in Units : jres[t] = "Ok"
    /\ \A c \in Cells : cell[c].rc = 1

\* The cell of the guard unit t gets in this step.
Got(t) == guards'[t][Len(guards'[t])]

\* Unit t drops its guard on cell c in this step.
Drops(t, c) == Count(guards'[t], c) < Count(guards[t], c)

\* C14: lock state machine.  A unit in lock() on a Locked cell has no step (it
\* neither fails nor returns); lock() returns only by taking the cell from
\* Unlocked to Locked; a guard is dropped only by its holder, from Locked to
\* Unlocked; and the locked flag changes in no other way.
LockStateMachine ==
    /\ [](\A t \in Units : Blocked(t) => ~ENABLED UnitStep(t))
    /\ [][\A t \in Units :
            LockReturns(t) => ~cell[Got(t)].locked /\ cell'[Got(t)].locked]_vars
    /\ [][\A t \in Units : \A c \in Cells :
            Drops(t, c) => cell[c].locked /\ ~cell'[c].locked]_vars
    /\ [][\A c \in Cells :
            /\ (~cell[c].locked /\ cell'[c].locked)
                    => \E t \in Units : LockReturns(t) /\ Got(t) = c
            /\ (cell[c].locked /\ ~cell'[c].locked)
                    => \E t \in Units : Holds(t, c) /\ Drops(t, c)]_vars

\* C14 witness: one unit has released the cell, a second has acquired it
\* since, and a third is blocked in lock() on it.
LockStateMachineWitness ==
    \E t, u, w \in Units : \E c \in Cells :
        /\ status[t] = "done"
        /\ Holds(u, c) /\ res[u] = "none"
        /\ Blocked(w) /\ Target(w) = c

\* Some unit is in lock() on a cell that is Unlocked.
WaiterOnFreeCell ==
    \E t \in Units : At(t, "lock") /\ ~cell[Target(t)].locked

\* C15: no lost wakeup.  At most one unit becomes the holder in a step, and
\* under weak fairness no cell stays Unlocked for ever while a unit is in
\* lock() on it: again and again no unit waits on an Unlocked cell.
NoLostWakeup ==
    /\ [][Cardinality({t \in Units : LockReturns(t)}) <= 1]_vars
    /\ []<>(~WaiterOnFreeCell)

\* C15 witness: a guard has been released while two units wait in lock() on
\* the cell, which is Unlocked.
NoLostWakeupWitness ==
    \E t, u, w \in Units :
        /\ u # w
        /\ status[t] = "done"
        /\ At(u, "lock") /\ At(w, "lock")
        /\ Target(u) = Target(w)
        /\ ~cell[Target(u)].locked

\* Every philosopher holds its left fork only and is in lock() on its right fork.
AllHoldLeft ==
    \A t \in Units :
        /\ status[t] = "running"
        /\ Instr(t) = I("lock", "right")
        /\ guards[t] = <<hnd[t][1]>>

\* C16: the ring can deadlock.  In the ring of two or more philosophers the
\* state in which every philosopher holds its left fork and is in lock() on
\* its right fork is reachable (the witness), and in it no thread has a step.
RingDeadlock ==
    (scenario = "ring" /\ n >= 2 /\ AllHoldLeft) => ~ENABLED Next

\* C16 witness: the largest ring, every philosopher holding its left fork and
\* blocked on its right fork.
RingDeadlockWitness ==
    /\ scenario = "ring"
    /\ n = MaxRing
    /\ AllHoldLeft
    /\ \A t \in Units : Blocked(t)

\* Unit t holds a guard on an inner cell of the pair.
HoldsInner(t) == Holds(t, 1) \/ Holds(t, 2)

\* C17: outer serialization.  In both paired scenarios a worker that holds a
\* guard on inner cell A or B also holds the outer guard, at most one worker
\* holds any inner guard, and a worker in lock() on an inner cell finds it
\* Unlocked.
OuterSerializes ==
    scenario \in {"pair_straight", "pair_swapped"} =>
        /\ \A t \in Units : HoldsInner(t) => Holds(t, 3)
        /\ Cardinality({t \in Units : HoldsInner(t)}) <= 1
        /\ \A t \in Units :
              (At(t, "lock") /\ Instr(t).pl \in {"m1", "m2"})
                  => ~cell[Target(t)].locked

\* C17 witness: a closure_b worker holds the outer guard and both inner
\* guards at once while another worker is blocked on the outer cell.
OuterSerializesWitness ==
    /\ scenario = "pair_swapped"
    /\ \E t, u \in Units :
          /\ kind[t] = "pairBA"
          /\ guards[t] = <<3, 2, 1>>
          /\ At(t, "print")
          /\ Blocked(u) /\ Target(u) = 3

FinishedAll == \A t \in Units : Finished(t)

\* Some philosopher has eaten, released both forks and returned.
SomeDone == \E t \in Units : status[t] = "done"

\* C18: shape of the ring's deadlock.  In the ring of two or more
\* philosophers, a state in which no thread can step while a philosopher has
\* not finished is the state where every philosopher holds its left fork;
\* once one philosopher is done no deadlock is reachable and, under weak
\* fairness, all philosophers finish.
RingDeadlockShape ==
    /\ []((scenario = "ring" /\ n >= 2 /\ ~FinishedAll /\ ~ENABLED Next)
            => AllHoldLeft)
    /\ []((scenario = "ring" /\ n >= 2 /\ SomeDone) => ~Deadlocked)
    /\ ((scenario = "ring" /\ n >= 2 /\ SomeDone) ~> FinishedAll)

\* C18 witness: one philosopher is done while another is blocked in lock()
\* and a third holds a fork.
RingDeadlockShapeWitness ==
    /\ scenario = "ring"
    /\ n = MaxRing
    /\ \E t, u, w \in Units :
          /\ status[t] = "done"
          /\ Blocked(u)
          /\ w # u /\ guards[w] # <<>>

\* Unit t is in lock() on a cell on which it holds a guard itself.
SelfBlocked(t) == At(t, "lock") /\ Holds(t, Target(t))

\* C19: the lock is not reentrant across handles.  A unit that holds a guard
\* on a cell and calls lock() through another handle of that cell has no
\* step, and stays in that state in every later state.
NotReentrant ==
    /\ [](\A t \in Units : SelfBlocked(t) => ~ENABLED UnitStep(t))
    /\ [][\A t \in Units : SelfBlocked(t) => SelfBlocked(t)']_vars

\* C19 witness: the ring of one, whose philosopher holds the fork through its
\* left handle and is in lock() on the right handle, a clone of the same fork.
NotReentrantWitness ==
    /\ scenario = "ring"
    /\ n = 1
    /\ hnd[1] = <<1, 1>>
    /\ SelfBlocked(1)
    /\ Instr(1).pl = "right"

\* C20: mutual exclusion survives poisoning.  lock() on a poisoned cell
\* returns its error only by taking the cell from Unlocked to Locked; while a
\* unit has the error the cell is Locked and the guard inside the error is the
\* only guard on it; and, under weak fairness, no poisoned cell stays Locked
\* for ever: the error's guard is dropped when unwrap() panics.
PoisonedExclusion ==
    /\ [][\A t \in Units :
            (LockReturns(t) /\ cell[Got(t)].poisoned)
                => /\ ~cell[Got(t)].locked
                   /\ cell'[Got(t)].locked
                   /\ res'[t] = "Err"]_vars
    /\ [](\A t \in Units :
            res[t] = "Err" => /\ cell[LastGuard(t)].locked
                              /\ GuardsOn(LastGuard(t)) = {<<t, Len(guards[t])>>})
    /\ []<>(~\E c \in Cells : cell[c].poisoned /\ cell[c].locked)

\* C20 witness: a unit is inside the LockPoisoned result of a cell while
\* another unit is blocked in lock() on that cell.
PoisonedExclusionWitness ==
    \E t, u \in Units :
        /\ res[t] = "Err"
        /\ Blocked(u)
        /\ Target(u) = LastGuard(t)

====
